---- MODULE Spec2Model ----
(***************************************************************************)
(* Model of the streaming-aggregation source operator of the pipeline     *)
(* engine (StreamingAggSourceOperator::can_read / get_block), the         *)
(* DataQueue (BlockQueue) it drains, the producer that fills the queue,   *)
(* the legacy aggregation node it falls back to, and the Task state       *)
(* machine that schedules it.                                             *)
(*                                                                         *)
(* get_block is not atomic: every queue operation is one step, so the     *)
(* producer may act between the operator's observations of the queue.     *)
(*                                                                         *)
(* Two further specifications stand beside it: ScannerSpec for             *)
(* SchemaVariablesScanner (start, get_next_block) and DecimalSpec for      *)
(* DecimalV3Type.widerDecimalV3Type / isWiderThan.                         *)
(***************************************************************************)
EXTENDS Integers, Sequences, FiniteSets, TLC

\* ------------------------------------------------------------------ bounds
MaxBatches == 3    \* batches the producer may push
MaxPulls   == 2    \* pulls of the legacy node that report no end-of-stream
Capacity   == 2    \* capacity of the ready sequence
NumWorkers == 2    \* worker threads of the pool

Workers == 1..NumWorkers

\* ------------------------------------------------------------------ values
Empty      == <<>>                       \* a block with zero rows
QueueData(k)  == <<"agg", k>>            \* rows of the k-th batch of the producer
LegacyData(k) == <<"node", k>>           \* rows returned by the k-th pull
NoBlock    == [id |-> 0, data |-> Empty] \* a null unique_ptr<Block>

VARIABLES
  \* DataQueue
  ready,          \* ready sequence (FIFO) of holders [id, data]
  free,           \* free-list of holders
  finished,       \* "producer finished" flag
  \* producer
  ppc,            \* "idle" | "filled" | "done"
  prodBlock,      \* holder the producer works on
  produced,       \* batches produced so far
  allocated,      \* holders allocated so far
  \* StreamingAggSourceOperator::get_block
  wpc,            \* per worker: its position inside get_block ("idle" outside)
  eos,            \* local bool eos
  agg_block,      \* local unique_ptr<Block> agg_block
  block,          \* the caller's output block (its rows)
  source_state,   \* the caller's SourceState
  status,         \* status returned by the call: OK | QueueError | NodeError
  \* legacy node
  pulls,          \* pulls answered so far
  \* Task
  taskState,      \* RUNNABLE | RUNNING | BLOCKED | FINISHED | FAILED
  \* history
  markCalled,     \* mark_producer_finished() has been called
  pushed,         \* rows pushed, in push order
  poppedLog,      \* rows popped, in pop order
  destroyed,      \* ids of holders destroyed (owned by nobody)
  cur,            \* record of the get_block call in progress
  calls,          \* records of the get_block calls that returned
  \* SchemaVariablesScanner
  sc_is_init,     \* _is_init
  sc_started,     \* start() has returned OK
  sc_variables,   \* _var_result.variables: sequence of <<name, value>>
  sc_block,       \* the caller's block: [names, values], one sequence per column
  sc_eos,         \* the caller's bool behind the eos pointer
  sc_calls,       \* calls of get_next_block so far
  sc_last,        \* the last call of start or get_next_block and its result
  \* DecimalV3Type
  dec_left,       \* operand left: [precision, scale]
  dec_right,      \* operand right
  dec_default_scale, \* the inherited constant DEFAULT_SCALE
  dec_result      \* what widerDecimalV3Type returned or threw

mainVars == <<ready, free, finished, ppc, prodBlock, produced, allocated,
              wpc, eos, agg_block, block, source_state, status, pulls,
              taskState, markCalled, pushed, poppedLog, destroyed, cur, calls>>
scVars  == <<sc_is_init, sc_started, sc_variables, sc_block, sc_eos, sc_calls,
             sc_last>>
decVars == <<dec_left, dec_right, dec_default_scale, dec_result>>
auxVars == <<scVars, decVars>>

vars == <<mainVars, scVars, decVars>>

\* the workers inside a step, and the position of the step in progress (a
\* Task is run by one worker at a time, so the locals eos, agg_block and the
\* returned status are kept once)
Active == {w \in Workers : wpc[w] # "idle"}
pc == IF Active = {} THEN "idle" ELSE wpc[CHOOSE w \in Active : TRUE]

queueVars == <<ready, free, finished>>
prodVars  == <<ppc, prodBlock, produced, allocated, markCalled, pushed>>
opVars    == <<wpc, eos, agg_block, block, source_state, status>>
histVars  == <<poppedLog, destroyed, cur, calls>>

\* ------------------------------------------------------------- DataQueue
\* is_exhausted(): finished flag set and ready sequence empty
data_exhausted == finished /\ ready = <<>>

\* has_data_or_finished(): a batch to consume, or the queue is exhausted
has_data_or_finished == Len(ready) > 0 \/ data_exhausted

\* try_pop_ready(): head of the ready sequence, or nothing
get_block_from_queue == IF ready = <<>> THEN NoBlock ELSE Head(ready)

\* ready sequence after try_pop_ready()
ready_after_pop == IF ready = <<>> THEN ready ELSE Tail(ready)

\* push_ready(b)
push_block(b) == Append(ready, b)

\* push_free(b)
push_free_block(b) == Append(free, b)

\* mark_producer_finished()
set_finish == TRUE

\* ------------------------------------------------------------- Block
\* Block::swap: the pair <<this, other>> after the exchange
swap(this, other) == <<other, this>>

\* Block::clear_column_data: zero rows, storage kept
clear_column_data(b) == Empty

\* ------------------------------------------------------------- operator
\* faulty variant: the readiness probe always answers true
can_read_always == TRUE

\* faulty variant: the probe reports ready batches only, not exhaustion
can_read_dataOnly == Len(ready) > 0

\* StreamingAggSourceOperator::can_read
can_read == has_data_or_finished

\* faulty variant: the ternary of line 51 with its arms exchanged
state_of_inverted(e) == IF e THEN "DEPEND_ON_SOURCE" ELSE "FINISHED"

\* faulty variant: line 51 reports RUNNING when there is no end-of-stream
state_of_running(e) == IF e THEN "FINISHED" ELSE "RUNNING"

\* source_state = eos ? FINISHED : DEPEND_ON_SOURCE
state_of(e) == IF e THEN "FINISHED" ELSE "DEPEND_ON_SOURCE"

\* record of one get_block call (history only)
NoCall == [entryLen |-> 0, entryFin |-> FALSE, stateIn |-> "RUNNING",
           popped |-> NoBlock, pops |-> 0, pulled |-> 0, pullEos |-> FALSE,
           pullData |-> Empty, exhaustedAtPull |-> FALSE, readyAtPull |-> 0,
           freed |-> 0, assigned |-> FALSE, failedAt |-> "none",
           delivered |-> FALSE]

MainInit ==
  /\ ready = <<>> /\ free = <<>> /\ finished = FALSE
  /\ ppc = "idle" /\ prodBlock = NoBlock /\ produced = 0 /\ allocated = 0
  /\ wpc = [w \in Workers |-> "idle"] /\ eos = FALSE /\ agg_block = NoBlock /\ block = Empty
  /\ source_state \in {"RUNNING", "DEPEND_ON_SOURCE"}
  /\ status = "OK"
  /\ pulls = 0
  /\ taskState = "RUNNABLE"
  /\ markCalled = FALSE /\ pushed = <<>> /\ poppedLog = <<>>
  /\ destroyed = {} /\ cur = NoCall /\ calls = <<>>

\* the scanner and the decimal types take no part in the pipeline
NoScCall == [op |-> "none", blockNull |-> FALSE, eosNull |-> FALSE,
             code |-> "OK", msg |-> "", wasInit |-> FALSE,
             blockBefore |-> [names |-> <<>>, values |-> <<>>],
             eosBefore |-> FALSE]
NoType == [kind |-> "none", precision |-> 0, scale |-> 0]

ScIdle ==
  /\ sc_is_init = FALSE /\ sc_started = FALSE /\ sc_variables = <<>>
  /\ sc_block = [names |-> <<>>, values |-> <<>>] /\ sc_eos = FALSE
  /\ sc_calls = 0 /\ sc_last = NoScCall

DecIdle ==
  /\ dec_left = NoType /\ dec_right = NoType /\ dec_default_scale = 0
  /\ dec_result = NoType

Init == MainInit /\ ScIdle /\ DecIdle

\* ------------------------------------------------------------- producer
\* producer: take a holder (free-list first, else a new one) and fill it
ProducerGetBlock ==
  /\ ppc = "idle" /\ produced < MaxBatches
  /\ LET h == IF free = <<>> THEN [id |-> allocated + 1, data |-> Empty]
              ELSE Head(free)
     IN /\ prodBlock' = [h EXCEPT !.data = h.data \o QueueData(produced + 1)]
        /\ free' = IF free = <<>> THEN free ELSE Tail(free)
        /\ allocated' = IF free = <<>> THEN allocated + 1 ELSE allocated
  /\ produced' = produced + 1
  /\ ppc' = "filled"
  /\ UNCHANGED <<ready, finished, markCalled, pushed, opVars, pulls,
                 taskState, histVars>>
  /\ UNCHANGED auxVars

\* producer: push_ready, rejected (retried later) while the queue is full
ProducerPush ==
  /\ ppc = "filled" /\ Len(ready) < Capacity
  /\ ready' = push_block(prodBlock)
  /\ pushed' = Append(pushed, prodBlock.data)
  /\ prodBlock' = NoBlock
  /\ ppc' = "idle"
  /\ UNCHANGED <<free, finished, produced, allocated, markCalled, opVars,
                 pulls, taskState, histVars>>
  /\ UNCHANGED auxVars

\* producer: mark_producer_finished, after its last push
ProducerFinish ==
  /\ ppc = "idle"
  /\ finished' = set_finish
  /\ markCalled' = TRUE
  /\ ppc' = "done"
  /\ UNCHANGED <<ready, free, prodBlock, produced, allocated, pushed, opVars,
                 pulls, taskState, histVars>>
  /\ UNCHANGED auxVars

\* ------------------------------------------------------------- legacy node
\* results of ExecNode::pull(state, block, &eos)
PullResults ==
  [status : {"OK", "NodeError"}, eos : BOOLEAN, rows : BOOLEAN]

\* _node->pull(state, block, &eos) followed by RETURN_IF_ERROR; the local
\* agg_block goes out of scope when the enclosing branch is left
Pull(w, next) ==
  \E r \in PullResults :
    /\ r.status = "NodeError" => (~r.eos /\ ~r.rows)
    /\ (r.status = "OK" /\ ~r.eos) => pulls < MaxPulls
    /\ pulls' = pulls + 1
    /\ destroyed' = IF agg_block = NoBlock THEN destroyed
                    ELSE destroyed \cup {agg_block.id}
    /\ agg_block' = NoBlock
    /\ LET c == [cur EXCEPT !.pulled = @ + 1,
                            !.exhaustedAtPull = data_exhausted,
                            !.readyAtPull = Len(ready)]
       IN IF r.status = "NodeError"
          THEN /\ status' = "NodeError"
               /\ wpc' = [wpc EXCEPT ![w] = "ret"]
               /\ cur' = [c EXCEPT !.failedAt = "pull"]
               /\ UNCHANGED <<eos, block>>
          ELSE /\ eos' = r.eos
               /\ block' = IF r.rows THEN LegacyData(pulls + 1) ELSE Empty
               /\ wpc' = [wpc EXCEPT ![w] = next]
               /\ cur' = [c EXCEPT !.pullEos = r.eos,
                                   !.pullData = block']
               /\ UNCHANGED status

\* ------------------------------------------------------------- get_block
\* lines 35-36: bool eos = false; if (!_data_queue->data_exhausted())
GetBlockEnter(w) ==
  /\ wpc[w] = "l36"
  /\ eos' = FALSE
  /\ wpc' = [wpc EXCEPT ![w] = IF ~data_exhausted THEN "l38" ELSE "l48"]
  /\ cur' = [NoCall EXCEPT !.entryLen = Len(ready), !.entryFin = finished,
                           !.stateIn = source_state]
  /\ UNCHANGED <<queueVars, prodVars, agg_block, block, source_state, status,
                 pulls, taskState, poppedLog, destroyed, calls>>
  /\ UNCHANGED auxVars

\* faulty variant: line 38 without RETURN_IF_ERROR, the failed pop is ignored
GetBlockPop_ignoreError(w) ==
  /\ wpc[w] = "l38"
  /\ \/ /\ status' = "QueueError"
        /\ wpc' = [wpc EXCEPT ![w] = "l40"]
        /\ cur' = [cur EXCEPT !.failedAt = "pop"]
        /\ UNCHANGED <<ready, agg_block, poppedLog>>
     \/ /\ agg_block' = get_block_from_queue
        /\ ready' = ready_after_pop
        /\ poppedLog' = IF agg_block' = NoBlock THEN poppedLog
                        ELSE Append(poppedLog, agg_block'.data)
        /\ cur' = [cur EXCEPT !.popped = agg_block', !.pops = @ + 1]
        /\ wpc' = [wpc EXCEPT ![w] = "l40"]
        /\ UNCHANGED status
  /\ UNCHANGED <<free, finished, prodVars, eos, block, source_state, pulls,
                 taskState, destroyed, calls>>
  /\ UNCHANGED auxVars

\* line 38: RETURN_IF_ERROR(_data_queue->get_block_from_queue(&agg_block))
GetBlockPop(w) ==
  /\ wpc[w] = "l38"
  /\ \/ /\ status' = "QueueError"
        /\ wpc' = [wpc EXCEPT ![w] = "ret"]
        /\ cur' = [cur EXCEPT !.failedAt = "pop"]
        /\ UNCHANGED <<ready, agg_block, poppedLog>>
     \/ /\ agg_block' = get_block_from_queue
        /\ ready' = ready_after_pop
        /\ poppedLog' = IF agg_block' = NoBlock THEN poppedLog
                        ELSE Append(poppedLog, agg_block'.data)
        /\ cur' = [cur EXCEPT !.popped = agg_block', !.pops = @ + 1]
        /\ wpc' = [wpc EXCEPT ![w] = "l40"]
        /\ UNCHANGED status
  /\ UNCHANGED <<free, finished, prodVars, eos, block, source_state, pulls,
                 taskState, destroyed, calls>>
  /\ UNCHANGED auxVars

\* faulty variant: line 40 with the condition negated
GetBlockCheck_inverted(w) ==
  /\ wpc[w] = "l40"
  /\ wpc' = [wpc EXCEPT ![w] = IF ~data_exhausted THEN "l41" ELSE "l43"]
  /\ UNCHANGED <<queueVars, prodVars, eos, agg_block, block, source_state,
                 status, pulls, taskState, histVars>>
  /\ UNCHANGED auxVars

\* line 40: if (_data_queue->data_exhausted())
GetBlockCheck(w) ==
  /\ wpc[w] = "l40"
  /\ wpc' = [wpc EXCEPT ![w] = IF data_exhausted THEN "l41" ELSE "l43"]
  /\ UNCHANGED <<queueVars, prodVars, eos, agg_block, block, source_state,
                 status, pulls, taskState, histVars>>
  /\ UNCHANGED auxVars

\* faulty variant: the else of line 47 is lost, line 48 pulls once more
GetBlockPullDrained_fallthrough(w) ==
  /\ wpc[w] = "l41"
  /\ Pull(w, "l48")
  /\ UNCHANGED <<queueVars, prodVars, source_state, taskState, poppedLog,
                 calls>>
  /\ UNCHANGED auxVars

\* line 41: RETURN_IF_ERROR(_node->pull(state, block, &eos))
GetBlockPullDrained(w) ==
  /\ wpc[w] = "l41"
  /\ Pull(w, "l51")
  /\ UNCHANGED <<queueVars, prodVars, source_state, taskState, poppedLog,
                 calls>>
  /\ UNCHANGED auxVars

\* faulty variant: lines 43 and 44 exchanged, the holder is cleared before the swap
GetBlockDeliver_clearFirst(w) ==
  /\ wpc[w] = "l43"
  /\ IF agg_block = NoBlock
     THEN /\ \E n \in {"crash", "l51"} : wpc' = [wpc EXCEPT ![w] = n]
          /\ UNCHANGED <<block, free, agg_block, cur>>
     ELSE LET sw == swap(block, clear_column_data(agg_block.data))
              h  == [id |-> agg_block.id, data |-> sw[2]]
          IN /\ block' = sw[1]
             /\ free' = push_free_block(h)
             /\ agg_block' = NoBlock
             /\ cur' = [cur EXCEPT !.freed = @ + 1, !.delivered = TRUE]
             /\ wpc' = [wpc EXCEPT ![w] = "l51"]
  /\ UNCHANGED <<ready, finished, prodVars, eos, source_state, status, pulls,
                 taskState, poppedLog, destroyed, calls>>
  /\ UNCHANGED auxVars

\* faulty variant: line 45 returns the holder to the ready sequence (push_block)
\* instead of the free-list
GetBlockDeliver_pushReady(w) ==
  /\ wpc[w] = "l43"
  /\ IF agg_block = NoBlock
     THEN /\ \E n \in {"crash", "l51"} : wpc' = [wpc EXCEPT ![w] = n]
          /\ UNCHANGED <<block, ready, agg_block, cur>>
     ELSE LET sw == swap(block, agg_block.data)
              h  == [id |-> agg_block.id, data |-> clear_column_data(sw[2])]
          IN /\ block' = sw[1]
             /\ ready' = push_block(h)
             /\ agg_block' = NoBlock
             /\ cur' = [cur EXCEPT !.freed = @ + 1, !.delivered = TRUE]
             /\ wpc' = [wpc EXCEPT ![w] = "l51"]
  /\ UNCHANGED <<free, finished, prodVars, eos, source_state, status, pulls,
                 taskState, poppedLog, destroyed, calls>>
  /\ UNCHANGED auxVars

\* faulty variant: line 44 is missing, the holder is recycled as swapped
GetBlockDeliver_noClear(w) ==
  /\ wpc[w] = "l43"
  /\ IF agg_block = NoBlock
     THEN /\ \E n \in {"crash", "l51"} : wpc' = [wpc EXCEPT ![w] = n]
          /\ UNCHANGED <<block, free, agg_block, cur>>
     ELSE LET sw == swap(block, agg_block.data)
              h  == [id |-> agg_block.id, data |-> sw[2]]
          IN /\ block' = sw[1]
             /\ free' = push_free_block(h)
             /\ agg_block' = NoBlock
             /\ cur' = [cur EXCEPT !.freed = @ + 1, !.delivered = TRUE]
             /\ wpc' = [wpc EXCEPT ![w] = "l51"]
  /\ UNCHANGED <<ready, finished, prodVars, eos, source_state, status, pulls,
                 taskState, poppedLog, destroyed, calls>>
  /\ UNCHANGED auxVars

\* lines 43-45: block->swap(*agg_block); agg_block->clear_column_data(..);
\*              _data_queue->push_free_block(std::move(agg_block))
GetBlockDeliver(w) ==
  /\ wpc[w] = "l43"
  /\ IF agg_block = NoBlock
     THEN \* *agg_block dereferences a null pointer
          /\ \E n \in {"crash", "l51"} : wpc' = [wpc EXCEPT ![w] = n]
          /\ UNCHANGED <<block, free, agg_block, cur>>
     ELSE LET sw == swap(block, agg_block.data)
              h  == [id |-> agg_block.id, data |-> clear_column_data(sw[2])]
          IN /\ block' = sw[1]
             /\ free' = push_free_block(h)
             /\ agg_block' = NoBlock
             /\ cur' = [cur EXCEPT !.freed = @ + 1, !.delivered = TRUE]
             /\ wpc' = [wpc EXCEPT ![w] = "l51"]
  /\ UNCHANGED <<ready, finished, prodVars, eos, source_state, status, pulls,
                 taskState, poppedLog, destroyed, calls>>
  /\ UNCHANGED auxVars

\* line 48: RETURN_IF_ERROR(_node->pull(state, block, &eos))
GetBlockPullExhausted(w) ==
  /\ wpc[w] = "l48"
  /\ Pull(w, "l51")
  /\ UNCHANGED <<queueVars, prodVars, source_state, taskState, poppedLog,
                 calls>>
  /\ UNCHANGED auxVars

\* lines 51-53: source_state = eos ? FINISHED : DEPEND_ON_SOURCE; return OK
GetBlockReturn(w) ==
  /\ wpc[w] = "l51"
  /\ source_state' = state_of(eos)
  /\ status' = "OK"
  /\ wpc' = [wpc EXCEPT ![w] = "ret"]
  /\ cur' = [cur EXCEPT !.assigned = TRUE]
  /\ UNCHANGED <<queueVars, prodVars, eos, agg_block, block, pulls,
                 taskState, poppedLog, destroyed, calls>>
  /\ UNCHANGED auxVars

\* ------------------------------------------------------------- Task
\* A worker takes the RUNNABLE Task and probes can_read(): a step is
\* started only when the probe is true, else the Task is parked
TaskSchedule(w) ==
  /\ taskState = "RUNNABLE" /\ wpc[w] = "idle"
  /\ IF can_read
     THEN /\ taskState' = "RUNNING"
          /\ wpc' = [wpc EXCEPT ![w] = "l36"]
          /\ block' \in {block, Empty}
     ELSE /\ taskState' = "BLOCKED"
          /\ UNCHANGED <<wpc, block>>
  /\ UNCHANGED <<queueVars, prodVars, eos, agg_block, source_state, status,
                 pulls, histVars>>
  /\ UNCHANGED auxVars

\* BLOCKED -> RUNNABLE once the readiness probe is true
TaskWake ==
  /\ taskState = "BLOCKED" /\ can_read
  /\ taskState' = "RUNNABLE"
  /\ UNCHANGED <<queueVars, prodVars, opVars, pulls, histVars>>
  /\ UNCHANGED auxVars

\* faulty variant: a step that returned FINISHED is requeued like any other
reclassify_requeue(st, s, b) ==
  IF st # "OK" THEN "FAILED"
  ELSE IF b # Empty THEN "RUNNABLE"
  ELSE "BLOCKED"

\* state of the Task after a step that returned st with state s and rows b
reclassify(st, s, b) ==
  IF st # "OK" THEN "FAILED"
  ELSE IF s = "FINISHED" THEN "FINISHED"
  ELSE IF b # Empty THEN "RUNNABLE"
  ELSE "BLOCKED"

\* the step returned: the Task is reclassified from its outcome
TaskReclassify(w) ==
  /\ taskState = "RUNNING" /\ wpc[w] = "ret"
  /\ calls' = Append(calls, [call |-> cur, status |-> status,
                             state |-> source_state, out |-> block])
  /\ taskState' = reclassify(status, source_state, block)
  /\ wpc' = [wpc EXCEPT ![w] = "idle"]
  /\ UNCHANGED <<queueVars, prodVars, eos, agg_block, block, source_state,
                 status, pulls, poppedLog, destroyed, cur>>
  /\ UNCHANGED auxVars

Next ==
  \/ ProducerGetBlock
  \/ ProducerPush
  \/ ProducerFinish
  \/ \E w \in Workers : GetBlockEnter(w)
  \/ \E w \in Workers : GetBlockPop(w)
  \/ \E w \in Workers : GetBlockCheck(w)
  \/ \E w \in Workers : GetBlockPullDrained(w)
  \/ \E w \in Workers : GetBlockDeliver(w)
  \/ \E w \in Workers : GetBlockPullExhausted(w)
  \/ \E w \in Workers : GetBlockReturn(w)
  \/ \E w \in Workers : TaskSchedule(w)
  \/ TaskWake
  \/ \E w \in Workers : TaskReclassify(w)

Spec == Init /\ [][Next]_vars

\* the producer thread, one worker thread, and the readiness poll
Producer == ProducerGetBlock \/ ProducerPush \/ ProducerFinish

Worker(w) ==
  \/ TaskSchedule(w)
  \/ GetBlockEnter(w)
  \/ GetBlockPop(w)
  \/ GetBlockCheck(w)
  \/ GetBlockPullDrained(w)
  \/ GetBlockDeliver(w)
  \/ GetBlockPullExhausted(w)
  \/ GetBlockReturn(w)
  \/ TaskReclassify(w)

\* every thread that can take a step eventually takes one
FairSpec ==
  /\ Spec
  /\ WF_vars(Producer)
  /\ WF_vars(TaskWake)
  /\ \A w \in Workers : WF_vars(Worker(w))

\* =================================================================
\* SchemaVariablesScanner
\* =================================================================
MaxVars    == 2    \* variables the frontend may return
MaxScCalls == 3    \* calls of get_next_block

\* the k-th variable of the frontend's answer: <<name, value>>
Variable(k) == <<<<"name", k>>, <<"value", k>>>>

Column(vs, c) == [k \in 1..Len(vs) |-> vs[k][c]]

\* _fill_block_impl: all names are appended to column 0, then all values to
\* column 1
fill_block_impl(b) ==
  [names  |-> b.names \o Column(sc_variables, 1),
   values |-> b.values \o Column(sc_variables, 2)]

\* faulty variant: the arguments are checked before _is_init
get_next_block_argsFirst(blockNull, eosNull) ==
  IF blockNull \/ eosNull
  THEN [code |-> "InternalError", msg |-> "invalid parameter.",
        block |-> sc_block, eos |-> sc_eos]
  ELSE IF ~sc_is_init
  THEN [code |-> "InternalError", msg |-> "call this before initial.",
        block |-> sc_block, eos |-> sc_eos]
  ELSE IF sc_variables = <<>>
  THEN [code |-> "OK", msg |-> "", block |-> sc_block, eos |-> TRUE]
  ELSE [code |-> "OK", msg |-> "", block |-> fill_block_impl(sc_block),
        eos |-> TRUE]

\* SchemaVariablesScanner::get_next_block(block, eos): the status, and the
\* caller's block and bool after the call
get_next_block(blockNull, eosNull) ==
  IF ~sc_is_init
  THEN [code |-> "InternalError", msg |-> "call this before initial.",
        block |-> sc_block, eos |-> sc_eos]
  ELSE IF blockNull \/ eosNull
  THEN [code |-> "InternalError", msg |-> "invalid parameter.",
        block |-> sc_block, eos |-> sc_eos]
  ELSE IF sc_variables = <<>>
  THEN [code |-> "OK", msg |-> "", block |-> sc_block, eos |-> TRUE]
  ELSE [code |-> "OK", msg |-> "", block |-> fill_block_impl(sc_block),
        eos |-> TRUE]

\* SchemaScanner::init of the base class: the scanner becomes initialised
ScInit ==
  /\ ~sc_is_init
  /\ sc_is_init' = TRUE
  /\ UNCHANGED <<sc_started, sc_variables, sc_block, sc_eos, sc_calls, sc_last>>
  /\ UNCHANGED <<mainVars, decVars>>

\* SchemaVariablesScanner::start: without ip or port an InternalError, else
\* the answer of SchemaHelper::show_variables (a failure, or n variables)
ScStart ==
  /\ sc_is_init /\ ~sc_started
  /\ \E ipPort \in BOOLEAN, rpcOk \in BOOLEAN, n \in 0..MaxVars :
       /\ (~ipPort \/ ~rpcOk) => n = 0
       /\ ~ipPort => rpcOk
       /\ IF ~ipPort
          THEN /\ sc_last' = [NoScCall EXCEPT !.op = "start",
                                !.code = "InternalError",
                                !.msg = "IP or port doesn't exists",
                                !.wasInit = sc_is_init]
               /\ UNCHANGED <<sc_started, sc_variables>>
          ELSE IF ~rpcOk
          THEN /\ sc_last' = [NoScCall EXCEPT !.op = "start",
                                !.code = "RpcError", !.wasInit = sc_is_init]
               /\ UNCHANGED <<sc_started, sc_variables>>
          ELSE /\ sc_variables' = [k \in 1..n |-> Variable(k)]
               /\ sc_started' = TRUE
               /\ sc_last' = [NoScCall EXCEPT !.op = "start",
                                !.wasInit = sc_is_init]
  /\ UNCHANGED <<sc_is_init, sc_block, sc_eos, sc_calls>>
  /\ UNCHANGED <<mainVars, decVars>>

\* a call of get_next_block, with a block or a null block and with a pointer
\* to the caller's bool or a null pointer
ScGetNextBlock ==
  /\ sc_calls < MaxScCalls
  /\ \E blockNull \in BOOLEAN, eosNull \in BOOLEAN :
       LET r == get_next_block(blockNull, eosNull)
       IN /\ sc_block' = r.block
          /\ sc_eos' = r.eos
          /\ sc_last' = [op |-> "get_next_block", blockNull |-> blockNull,
                         eosNull |-> eosNull, code |-> r.code, msg |-> r.msg,
                         wasInit |-> sc_is_init, blockBefore |-> sc_block,
                         eosBefore |-> sc_eos]
  /\ sc_calls' = sc_calls + 1
  /\ UNCHANGED <<sc_is_init, sc_started, sc_variables>>
  /\ UNCHANGED <<mainVars, decVars>>

MainIdle == MainInit /\ source_state = "RUNNING"

ScannerInit ==
  /\ MainIdle /\ DecIdle
  /\ sc_is_init = FALSE /\ sc_started = FALSE /\ sc_variables = <<>>
  /\ sc_block = [names |-> <<>>, values |-> <<>>]
  /\ sc_eos \in BOOLEAN
  /\ sc_calls = 0 /\ sc_last = NoScCall

ScannerNext ==
  \/ ScInit
  \/ ScStart
  \/ ScGetNextBlock

ScannerSpec == ScannerInit /\ [][ScannerNext]_vars

\* =================================================================
\* DecimalV3Type
\* =================================================================
MAX_DECIMAL128_PRECISION == 38
MaxInputPrecision == 4   \* operands up to this precision, and the maximum

DecPrecisions == (1..MaxInputPrecision) \cup {MAX_DECIMAL128_PRECISION}
DecScales == (0..MaxInputPrecision) \cup {MAX_DECIMAL128_PRECISION}

Max(a, b) == IF a >= b THEN a ELSE b

\* new DecimalV3Type(precision, scale)
DecimalV3Type(p, sc) == [kind |-> "type", precision |-> p, scale |-> sc]

IllegalArgument ==
  [kind |-> "IllegalArgumentException", precision |-> 0, scale |-> 0]

\* createDecimalV3Type(int precision, int scale) with its three
\* Preconditions.checkArgument
createDecimalV3Type(p, sc) ==
  IF ~(p > 0 /\ p <= MAX_DECIMAL128_PRECISION) THEN IllegalArgument
  ELSE IF ~(sc >= 0) THEN IllegalArgument
  ELSE IF ~(p >= sc) THEN IllegalArgument
  ELSE DecimalV3Type(p, sc)

\* createDecimalV3Type(int precision): the scale is DEFAULT_SCALE
createDecimalV3TypeDefault(p) == createDecimalV3Type(p, dec_default_scale)

\* widerDecimalV3Type(left, right) through the private
\* widerDecimalV3Type(int leftPrecision, int rightPrecision)
widerDecimalV3Type(l, r) ==
  createDecimalV3TypeDefault(Max(l.precision, r.precision))

\* isWiderThan / isWiderThanInternal for a DecimalV3Type argument
isWiderThan(this, other) ==
  /\ this.precision - this.scale >= other.precision - other.scale
  /\ this.scale >= other.scale

\* the operands: every type createDecimalV3Type accepts within the bounds
DecOperands ==
  {t \in {DecimalV3Type(p, sc) : p \in DecPrecisions, sc \in DecScales} :
     createDecimalV3Type(t.precision, t.scale) = t}

DecWiden ==
  /\ dec_result = NoType
  /\ dec_result' = widerDecimalV3Type(dec_left, dec_right)
  /\ UNCHANGED <<dec_left, dec_right, dec_default_scale>>
  /\ UNCHANGED <<mainVars, scVars>>

DecimalInit ==
  /\ MainIdle /\ ScIdle
  /\ dec_left \in DecOperands /\ dec_right \in DecOperands
  /\ dec_default_scale \in 0..MaxInputPrecision
  /\ dec_result = NoType

DecimalNext == DecWiden

DecimalSpec == DecimalInit /\ [][DecimalNext]_vars

\* =================================================================
\* Properties
\* =================================================================
Calls == 1..Len(calls)
Ok(i) == calls[i].status = "OK"

\* the calls that delivered a batch of the queue, and what they delivered
DeliveredCalls == SelectSeq(calls, LAMBDA c : c.call.delivered)
DeliveredSeq == [i \in 1..Len(DeliveredCalls) |-> DeliveredCalls[i].out]

IsPrefix(a, b) == Len(a) <= Len(b) /\ \A i \in 1..Len(a) : a[i] = b[i]

\* the queue held n batches and the producer had finished when the first
\* get_block call started
PreLoaded(n) ==
  /\ Len(calls) >= 1
  /\ calls[1].call.entryFin
  /\ calls[1].call.entryLen = n

\* C1: with N >= 1 batches pre-loaded and the producer finished, the calls
\* 1..N each deliver the next pushed batch with a state other than FINISHED
\* and without a pull; call N+1 pulls, and when that pull reports EOS with no
\* rows it returns FINISHED with an empty batch.
C1_ScenarioA ==
  \A n \in 1..MaxBatches :
    PreLoaded(n) =>
      \A i \in Calls :
        (\A j \in 1..i : Ok(j)) =>
          /\ i <= n => /\ calls[i].call.delivered
                       /\ calls[i].call.pulled = 0
                       /\ calls[i].out = pushed[i]
                       /\ calls[i].state # "FINISHED"
          /\ i = n + 1 => /\ calls[i].call.pulled = 1
                          /\ (calls[i].call.pullEos /\ calls[i].call.pullData = Empty)
                               => (calls[i].state = "FINISHED" /\ calls[i].out = Empty)

\* C2: between calls every popped batch has been delivered exactly once, in
\* order, and a Task that finished has consumed everything that was pushed.
C2_ExactlyOnce ==
  /\ pc = "idle" => DeliveredSeq = poppedLog
  /\ taskState = "FINISHED" => DeliveredSeq = pushed

\* C3: a successful call returns FINISHED iff it pulled and the pull reported
\* end-of-stream; every other successful call returns DEPEND_ON_SOURCE.
C3_FinishedIffPullEos ==
  \A i \in Calls :
    Ok(i) =>
      /\ calls[i].state = "FINISHED"
           <=> (calls[i].call.pulled >= 1 /\ calls[i].call.pullEos)
      /\ calls[i].state # "FINISHED" => calls[i].state = "DEPEND_ON_SOURCE"

C3_Witness ==
  \E i, j \in Calls :
    /\ Ok(i) /\ calls[i].call.pulled = 1 /\ calls[i].call.pullEos
    /\ Ok(j) /\ calls[j].call.pulled = 1 /\ ~calls[j].call.pullEos
    /\ \E k \in Calls : Ok(k) /\ calls[k].call.delivered

\* C4: when get_block returns FINISHED the queue is exhausted (producer
\* finished, ready sequence empty), it was exhausted when the legacy node was
\* pulled, and that pull of the same call reported end-of-stream.
C4_FinishedOnlyWhenExhausted ==
  (pc = "ret" /\ status = "OK" /\ source_state = "FINISHED") =>
    /\ finished /\ ready = <<>>
    /\ cur.pulled = 1 /\ cur.pullEos
    /\ cur.exhaustedAtPull /\ cur.readyAtPull = 0

C4_Witness ==
  /\ pc = "ret" /\ status = "OK" /\ source_state = "FINISHED"
  /\ cur.pops = 1 /\ Len(pushed) >= 1

\* C5: the Task's steps return FINISHED at most once; the call that did is the
\* last one and the Task is FINISHED afterwards; a FINISHED Task stays
\* FINISHED and runs no further step (no call, no pop, no pull).
FinishedCalls == {i \in Calls : Ok(i) /\ calls[i].state = "FINISHED"}

C5_EosOnce ==
  /\ [](/\ Cardinality(FinishedCalls) <= 1
        /\ FinishedCalls # {} => (FinishedCalls = {Len(calls)} /\ taskState = "FINISHED")
        /\ taskState = "FINISHED" => (FinishedCalls # {} /\ pc = "idle"))
  /\ [][taskState = "FINISHED" =>
          /\ taskState' = "FINISHED"
          /\ UNCHANGED <<wpc, calls, poppedLog, pulls, source_state>>]_vars

C5_Witness ==
  /\ taskState = "FINISHED"
  /\ Len(calls) >= 2
  /\ Len(DeliveredSeq) >= 1

\* C6: can_read() is true iff the queue holds a ready batch or is exhausted,
\* so it is false for an empty queue whose producer has not finished; and a
\* get_block call is only ever started on a queue that was readable.
C6_CanRead ==
  /\ can_read <=> (Len(ready) >= 1 \/ (finished /\ ready = <<>>))
  /\ (ready = <<>> /\ ~finished) => ~can_read
  /\ pc = "l36" => (Len(ready) >= 1 \/ finished)
  /\ pc \notin {"idle", "l36"} => (cur.entryLen >= 1 \/ cur.entryFin)
  /\ \A i \in Calls : calls[i].call.entryLen >= 1 \/ calls[i].call.entryFin

C6_Witness ==
  /\ taskState = "BLOCKED" /\ ready = <<>> /\ ~finished
  /\ Len(calls) >= 1

\* C7: is_exhausted() is true iff mark_producer_finished() has been called and
\* the ready sequence is empty; once true it stays true; the queue is never
\* both non-empty and exhausted.
C7_Exhausted ==
  /\ [](data_exhausted <=> (markCalled /\ ready = <<>>))
  /\ [](~(ready # <<>> /\ data_exhausted))
  /\ [][data_exhausted => data_exhausted']_vars

C7_Witness ==
  /\ data_exhausted
  /\ Len(poppedLog) >= 1
  /\ pc = "l40"

\* C8: batches are popped in the order they were pushed, and the batches
\* get_block delivers from the queue are the popped ones, in that order.
C8_Fifo ==
  /\ IsPrefix(poppedLog, pushed)
  /\ \A i \in Calls :
       calls[i].call.delivered => calls[i].out = calls[i].call.popped.data
  /\ \A i \in 1..Len(DeliveredSeq) :
       \E k \in 1..Len(poppedLog) :
         /\ poppedLog[k] = DeliveredSeq[i]
         /\ \A j \in 1..(i - 1) :
              \E m \in 1..(k - 1) : poppedLog[m] = DeliveredSeq[j]

C8_Witness ==
  /\ Len(DeliveredSeq) >= 2
  /\ Len(poppedLog) >= 2

\* C9: every holder is in exactly one of {producer, ready sequence, consumer,
\* free-list}; in particular a holder popped by get_block is, once the call
\* is over, in the free-list (its rows in the output), never nowhere.
HolderIds == 1..allocated
InSeq(q, h) == Cardinality({i \in 1..Len(q) : q[i].id = h})
Places(h) ==
  (IF prodBlock.id = h THEN 1 ELSE 0) + InSeq(ready, h)
    + (IF agg_block.id = h THEN 1 ELSE 0) + InSeq(free, h)

C9_SingleOwner == \A h \in HolderIds : Places(h) = 1

\* C10: a failed pop or pull ends the call with that failure at once: after a
\* failed pop there is no pull and no push to the free-list, after a failed
\* pull no push to the free-list; source_state is not assigned; nothing is
\* tried twice.
FailOk(c, st, s) ==
  /\ c.failedAt = "none" <=> st = "OK"
  /\ c.failedAt = "pop" <=> st = "QueueError"
  /\ c.failedAt = "pull" <=> st = "NodeError"
  /\ c.pops <= 1 /\ c.pulled <= 1
  /\ c.failedAt = "pop" => (c.pops = 0 /\ c.pulled = 0 /\ c.freed = 0)
  /\ c.failedAt = "pull" => (c.pulled = 1 /\ c.freed = 0)
  /\ c.failedAt # "none" => (~c.assigned /\ s = c.stateIn)

C10_ErrorPropagation ==
  /\ pc = "ret" => FailOk(cur, status, source_state)
  /\ \A i \in Calls : FailOk(calls[i].call, calls[i].status, calls[i].state)

C10_Witness ==
  \E i \in Calls :
    /\ calls[i].call.failedAt = "pop"
    /\ calls[i].call.entryLen >= 1
    /\ calls[i].status = "QueueError"
    /\ calls[i].state = "RUNNING"

\* C11: a step that fails (its pop or its pull failed, or it returned a
\* status other than OK) happens at most once per Task, it is the last step,
\* the Task is FAILED after it, and a FAILED Task stays FAILED and is run by
\* no worker again.
FailedSteps ==
  {i \in Calls : calls[i].status # "OK" \/ calls[i].call.failedAt # "none"}

C11_FailedOnce ==
  /\ [](/\ Cardinality(FailedSteps) <= 1
        /\ FailedSteps # {} => (FailedSteps = {Len(calls)} /\ taskState = "FAILED")
        /\ taskState = "FAILED" => (FailedSteps # {} /\ Active = {}))
  /\ [][taskState = "FAILED" =>
          /\ taskState' = "FAILED"
          /\ UNCHANGED <<wpc, calls, poppedLog, pulls, block>>]_vars

C11_Witness ==
  /\ taskState = "FAILED"
  /\ Len(calls) >= 2
  /\ ready # <<>>

\* C12: at most one worker is inside a step of the Task, hence at most one
\* is at a pull of the legacy node, and no call pulls more than once.
InPull == {w \in Workers : wpc[w] \in {"l41", "l48"}}

C12_ExclusivePull ==
  /\ Cardinality(Active) <= 1
  /\ Cardinality(InPull) <= 1
  /\ taskState = "RUNNING" <=> Active # {}
  /\ Active # {} /\ pc # "l36" => cur.pulled <= 1
  /\ \A i \in Calls : calls[i].call.pulled <= 1

C12_Witness ==
  /\ wpc[2] = "l48" /\ wpc[1] = "idle"
  /\ Len(calls) >= 1 /\ calls[1].call.pulled = 1

\* C13: a successful call either delivers the non-empty batch it popped, or
\* pulls from the legacy node in that call, and it pulls only on a queue that
\* is exhausted (already at entry when nothing was popped); it never returns
\* OK with neither.
C13_BatchOrPull ==
  \A i \in Calls :
    Ok(i) =>
      LET c == calls[i].call IN
        \/ /\ c.delivered /\ c.pops = 1 /\ c.popped # NoBlock
           /\ calls[i].out = c.popped.data /\ calls[i].out # Empty
           /\ c.pulled = 0
        \/ /\ ~c.delivered /\ c.pulled = 1 /\ c.exhaustedAtPull
           /\ c.pops = 0 => (c.entryFin /\ c.entryLen = 0)

C13_Witness ==
  \E i, j \in Calls :
    /\ Ok(i) /\ calls[i].call.delivered
    /\ Ok(j) /\ calls[j].call.pops = 1 /\ calls[j].call.pulled = 1
       /\ calls[j].call.popped # NoBlock

\* C14: after a call that pulled from the legacy node, no call pops or
\* delivers from the queue; every later call pulls.
PulledBefore == \E i \in Calls : calls[i].call.pulled >= 1

C14_OneWay ==
  /\ \A i, j \in Calls :
       (i < j /\ calls[i].call.pulled >= 1) =>
         /\ calls[j].call.pops = 0 /\ ~calls[j].call.delivered
         /\ calls[j].call.pulled = 1
  /\ PulledBefore => pc \in {"idle", "l36", "l48", "l51", "ret"}

C14_Witness ==
  /\ Len(calls) >= 3
  /\ calls[1].call.delivered
  /\ calls[2].call.pulled = 1
  /\ calls[3].call.pulled = 1

\* C15: every holder in the free-list has zero rows, so a holder the producer
\* takes from it carries only the rows of the new batch; a call pushes one
\* holder to the free-list when it delivers a batch and none otherwise.
C15_FreeListClean ==
  /\ \A i \in 1..Len(free) : free[i].data = Empty
  /\ ppc = "filled" => prodBlock.data = QueueData(produced)
  /\ \A k \in 1..Len(pushed) : pushed[k] = QueueData(k)
  /\ \A i \in Calls :
       calls[i].call.freed = IF calls[i].call.delivered THEN 1 ELSE 0

C15_Witness ==
  /\ ppc = "filled"
  /\ allocated < produced
  /\ \E i \in Calls : calls[i].call.delivered /\ calls[i].call.stateIn # "RUNNING"

EosReported == \E i \in Calls : calls[i].call.pullEos

C17_Progress ==
  /\ (taskState = "BLOCKED" /\ (ready # <<>> \/ finished))
       ~> (taskState # "BLOCKED")
  /\ <>(taskState \in {"FINISHED", "FAILED"})
  /\ [](taskState = "FAILED" => (~EosReported /\ FailedSteps # {}))
  /\ [](EosReported => taskState = "FINISHED")

C17_Witness ==
  /\ taskState = "FINISHED"
  /\ \E i \in Calls : calls[i].state = "DEPEND_ON_SOURCE" /\ calls[i].out = Empty
  /\ Len(pushed) = MaxBatches


\* C18: get_next_block on a scanner that is not initialised returns the
\* InternalError "call this before initial." whatever the arguments are, null
\* or not, and leaves the caller's block and bool as they were.
C18_BeforeInit ==
  (sc_last.op = "get_next_block" /\ ~sc_last.wasInit) =>
    /\ sc_last.code = "InternalError"
    /\ sc_last.msg = "call this before initial."
    /\ sc_block = sc_last.blockBefore
    /\ sc_eos = sc_last.eosBefore

C18_Witness ==
  /\ sc_last.op = "get_next_block" /\ ~sc_last.wasInit
  /\ sc_last.blockNull /\ sc_last.eosNull
  /\ sc_calls >= 2

\* C19: get_next_block on an initialised scanner with a null block or a null
\* eos pointer returns an InvalidArgument status and appends nothing.
C19_NullIsInvalidArgument ==
  (sc_last.op = "get_next_block" /\ sc_last.wasInit
     /\ (sc_last.blockNull \/ sc_last.eosNull)) =>
    /\ sc_last.code = "InvalidArgument"
    /\ sc_block = sc_last.blockBefore

\* C20: the type widerDecimalV3Type returns is wider than both operands.
C20_WiderThanBoth ==
  dec_result # NoType =>
    /\ dec_result.kind = "type"
    /\ isWiderThan(dec_result, dec_left)
    /\ isWiderThan(dec_result, dec_right)


====
